---- MODULE Spec2Model ----
(***************************************************************************)
(* Model of the lazy-follow controller LazyBrush (src/src/LazyBrush.ts)    *)
(* and of the LazyPoint primitive it owns.                                 *)
(*                                                                         *)
(* Numbers.  Coordinates, radius and distance are JavaScript numbers; the  *)
(* model holds them as integers counting 1/Scale of a pixel and follows    *)
(* real arithmetic on them.  update() is only applied to samples for which *)
(* the square root and the polar displacement are again on that grid       *)
(* (Representable), so no value of the model is ever rounded.              *)
(* A friction value f stands for f / FrictionDen.                         *)
(* An angle is held as the direction it denotes: the vector <<c, s>> in    *)
(* lowest terms with atan2(s, c) = angle; the angle 0 is <<1, 0>>.         *)
(* An optional value (a property that may be undefined) is <<>> or <<v>>.  *)
(*                                                                         *)
(* Calls.  Each method call is one step; it leaves in `call` the method,   *)
(* its arguments and its return value, and in `old` the fields as they     *)
(* were before it.  Return gives control back to the caller, who makes the *)
(* next call.                                                              *)
(***************************************************************************)
EXTENDS Integers, Sequences, FiniteSets

VARIABLES pointer, brush, velocity, radius, isEnabled, hasMoved, angle,
          distance, call, old, moves

vars == <<pointer, brush, velocity, radius, isEnabled, hasMoved, angle,
          distance, call, old, moves>>

\* At most this many lazy displacements of the brush follow one another
\* before the brush is put on a sample again (forced sync, disabled mode).
MaxMoves == 1

\* Grid resolution: units per pixel.
Scale == 40

\* Friction values are counted in units of the clamp floor 0.01.
FrictionDen == 100

RADIUS_DEFAULT == 30 * Scale

Px(n) == n * Scale

Point(x, y) == [x |-> x, y |-> y]

Abs(n) == IF n < 0 THEN -n ELSE n

Min(a, b) == IF a < b THEN a ELSE b

Max(a, b) == IF a > b THEN a ELSE b

RECURSIVE Gcd(_, _)
Gcd(a, b) == IF b = 0 THEN a ELSE Gcd(b, a % b)

\* Largest k in lo..hi with k * k <= n (bisection).
RECURSIVE SqrtIn(_, _, _)
SqrtIn(n, lo, hi) ==
  IF lo >= hi THEN lo
  ELSE LET mid == (lo + hi + 1) \div 2
       IN IF mid * mid <= n THEN SqrtIn(n, mid, hi) ELSE SqrtIn(n, lo, mid - 1)

\* 46340 is the largest root of a 32-bit signed square.
Isqrt(n) == SqrtIn(n, 0, Min(n, 46340))

IsSquare(n) == Isqrt(n) * Isqrt(n) = n

\* JavaScript truthiness of an optional number / boolean property.
TruthyNumber(o) == o # <<>> /\ o[1] # 0

TruthyBoolean(o) == o # <<>> /\ o[1] = TRUE

\* Mutant: a half is rounded down, ceil(x - 1/2).
MathRound_HalfDown(num, den) == (2 * num + den - 1) \div (2 * den)

\* Math.round of the rational num / den (den > 0): floor(x + 1/2).
MathRound(num, den) == (2 * num + den) \div (2 * den)

-----------------------------------------------------------------------------
\* LazyPoint

equalsTo(this, point) == this.x = point.x /\ this.y = point.y

getDifferenceTo(this, point) == Point(this.x - point.x, this.y - point.y)

SquaredNorm(v) == v.x * v.x + v.y * v.y

getDistanceTo(this, point) == Isqrt(SquaredNorm(getDifferenceTo(this, point)))

AngleZero == <<1, 0>>

\* Math.atan2(y, x) as a direction; atan2(0, 0) = 0.
Atan2(y, x) ==
  IF x = 0 /\ y = 0 THEN AngleZero
  ELSE LET g == Gcd(Abs(x), Abs(y)) IN <<x \div g, y \div g>>

getAngleTo(this, point) ==
  LET diff == getDifferenceTo(this, point) IN Atan2(diff.y, diff.x)

\* Length of the direction vector of an angle.
Hypot(a) == Isqrt(a[1] * a[1] + a[2] * a[2])

\* The displacement, times FrictionDen, that moveByAngle applies.
Damped(dist, friction) ==
  IF friction = <<>> THEN dist * FrictionDen ELSE dist * friction[1]

moveByAngle(this, a, dist, friction) ==
  Point(this.x + (a[1] * Damped(dist, friction)) \div (Hypot(a) * FrictionDen),
        this.y + (a[2] * Damped(dist, friction)) \div (Hypot(a) * FrictionDen))

\* cos(a) * dist and sin(a) * dist, damped, fall on the grid.
MoveOnGrid(a, dist, friction) ==
  /\ Hypot(a) * Hypot(a) = a[1] * a[1] + a[2] * a[2]
  /\ (a[1] * Damped(dist, friction)) % (Hypot(a) * FrictionDen) = 0
  /\ (a[2] * Damped(dist, friction)) % (Hypot(a) * FrictionDen) = 0

-----------------------------------------------------------------------------
\* LazyBrush

\* The controller's fields as one record.
Brush(p, b, r, e, m, a, d) ==
  [pointer |-> p, brush |-> b, radius |-> r, isEnabled |-> e, hasMoved |-> m,
   angle |-> a, distance |-> d]

this == Brush(pointer, brush, radius, isEnabled, hasMoved, angle, distance)

\* Mutant: lazy mode is on unless enabled is false.
constructor_EnabledUnlessFalse(options) ==
  LET initialPoint == IF options.initialPoint # <<>>
                        THEN options.initialPoint[1] ELSE Point(0, 0)
  IN Brush(initialPoint, initialPoint,
           IF TruthyNumber(options.radius) THEN options.radius[1]
                                           ELSE RADIUS_DEFAULT,
           options.enabled # <<FALSE>>,
           FALSE, AngleZero, 0)

constructor(options) ==
  LET initialPoint == IF options.initialPoint # <<>>
                        THEN options.initialPoint[1] ELSE Point(0, 0)
  IN Brush(initialPoint, initialPoint,
           IF TruthyNumber(options.radius) THEN options.radius[1]
                                           ELSE RADIUS_DEFAULT,
           options.enabled = <<TRUE>>,
           FALSE, AngleZero, 0)

\* Mutant: the points compared by reference, never equal.
shortCircuit_ByReference(s, newPointerPoint, options) ==
  /\ FALSE
  /\ ~TruthyBoolean(options.both)
  /\ ~TruthyNumber(options.friction)

\* Mutant: the friction option does not prevent the early return.
shortCircuit_IgnoresFriction(s, newPointerPoint, options) ==
  /\ equalsTo(s.pointer, newPointerPoint)
  /\ ~TruthyBoolean(options.both)

\* Mutant: the early return does not look at the point.
shortCircuit_IgnoresPoint(s, newPointerPoint, options) ==
  /\ ~TruthyBoolean(options.both)
  /\ ~TruthyNumber(options.friction)

\* update(): the early return of lines 156-162.
shortCircuit(s, newPointerPoint, options) ==
  /\ equalsTo(s.pointer, newPointerPoint)
  /\ ~TruthyBoolean(options.both)
  /\ ~TruthyNumber(options.friction)

\* Mutant: the forced sync also resets distance and angle.
forcedSync_Resets(s, newPointerPoint) ==
  [s EXCEPT !.hasMoved = TRUE, !.brush = newPointerPoint, !.distance = 0,
            !.angle = AngleZero]

\* update(): the forced sync of lines 166-170 (s has the new pointer).
forcedSync(s, newPointerPoint) ==
  [s EXCEPT !.hasMoved = TRUE, !.brush = newPointerPoint]

\* Mutant: the excess is truncated to one decimal place, not rounded.
isOutside_Truncated(dist, r) == ((dist - r) * 10) \div Scale > 0

\* Mutant: >= 0 for > 0.
isOutside_Inclusive(dist, r) == MathRound((dist - r) * 10, Scale) >= 0

\* Math.round((distance - radius) * 10) / 10 > 0; the division by 10 keeps
\* the sign.
isOutside(dist, r) == MathRound((dist - r) * 10, Scale) > 0

\* Mutant: the friction option is dropped.
friction_Ignored(options) == <<>>

\* Mutant: the clamp has no floor.
friction_NoFloor(options) ==
  IF TruthyNumber(options.friction) /\ options.friction[1] < FrictionDen
    THEN <<Min(options.friction[1], FrictionDen)>>
    ELSE <<>>

friction(options) ==
  IF TruthyNumber(options.friction) /\ options.friction[1] < FrictionDen
    THEN <<Min(Max(options.friction[1], 1), FrictionDen)>>
    ELSE <<>>

\* Mutant: the brush travels the whole distance, not distance - radius.
lazyFollow_WholeDistance(s, options) ==
  LET d == getDistanceTo(s.pointer, s.brush)
      a == getAngleTo(s.pointer, s.brush)
      s1 == [s EXCEPT !.distance = d, !.angle = a]
  IN IF isOutside(d, s.radius)
       THEN [s1 EXCEPT !.brush = moveByAngle(s.brush, a, d, friction(options)),
                       !.hasMoved = TRUE]
       ELSE s1

\* update(): the lazy branch of lines 173-189 (s has the new pointer).
lazyFollow(s, options) ==
  LET d == getDistanceTo(s.pointer, s.brush)
      a == getAngleTo(s.pointer, s.brush)
      s1 == [s EXCEPT !.distance = d, !.angle = a]
  IN IF isOutside(d, s.radius)
       THEN [s1 EXCEPT !.brush = moveByAngle(s.brush, a, d - s.radius,
                                             friction(options)),
                       !.hasMoved = TRUE]
       ELSE s1

\* Mutant: the brush is not overwritten.
directTrack_KeepsBrush(s, newPointerPoint) ==
  [s EXCEPT !.distance = 0, !.angle = AngleZero, !.hasMoved = TRUE]

\* update(): the disabled branch of lines 191-194 (s has the new pointer).
directTrack(s, newPointerPoint) ==
  [s EXCEPT !.distance = 0, !.angle = AngleZero, !.brush = newPointerPoint,
            !.hasMoved = TRUE]

\* update() from line 156 on (s0 has hasMoved reset).
updateBody(s0, newPointerPoint, options) ==
  LET s1 == [s0 EXCEPT !.pointer = newPointerPoint]
  IN IF shortCircuit(s0, newPointerPoint, options)
       THEN [this |-> s0, ret |-> FALSE]
     ELSE IF TruthyBoolean(options.both)
       THEN [this |-> forcedSync(s1, newPointerPoint), ret |-> TRUE]
     ELSE IF s1.isEnabled
       THEN [this |-> lazyFollow(s1, options), ret |-> TRUE]
     ELSE [this |-> directTrack(s1, newPointerPoint), ret |-> TRUE]

\* Mutant: hasMoved is not reset on entry.
update_NoReset(s, newPointerPoint, options) ==
  updateBody(s, newPointerPoint, options)

\* update(): the state it leaves and the value it returns.
update(s, newPointerPoint, options) ==
  updateBody([s EXCEPT !.hasMoved = FALSE], newPointerPoint, options)

\* The samples update() computes without rounding: the distance is a grid
\* value and so is the displacement of the brush.
Representable(s, newPointerPoint, options) ==
  LET diff == getDifferenceTo(newPointerPoint, s.brush)
      d == Isqrt(SquaredNorm(diff))
  IN \/ shortCircuit(s, newPointerPoint, options)
     \/ TruthyBoolean(options.both)
     \/ ~s.isEnabled
     \/ /\ IsSquare(SquaredNorm(diff))
        /\ isOutside(d, s.radius) =>
             MoveOnGrid(Atan2(diff.y, diff.x), d - s.radius, friction(options))

\* update() displaces the brush in its lazy branch.
LazyMove(s, newPointerPoint, options) ==
  /\ ~shortCircuit(s, newPointerPoint, options)
  /\ ~TruthyBoolean(options.both)
  /\ s.isEnabled
  /\ isOutside(getDistanceTo(newPointerPoint, s.brush), s.radius)

-----------------------------------------------------------------------------
\* Inputs

InitialPoints == {<<>>, <<Point(Px(30), Px(40))>>}

RadiusOptions == {<<>>, <<0>>, <<-Px(10)>>}

EnabledOptions == {<<>>, <<FALSE>>, <<TRUE>>}

LazyBrushOptions ==
  [radius : RadiusOptions, enabled : EnabledOptions, initialPoint : InitialPoints]

Radii == {-Px(10), 0, Px(50)}

Points ==
  {Point(0, 0), Point(Px(100), 0), Point(Px(30), Px(40)),
   Point(Px(30) + 1, 0)}

BothOptions == {<<>>, <<FALSE>>, <<TRUE>>}

FrictionOptions == {<<>>, <<0>>, <<-50>>, <<50>>, <<100>>}

LazyBrushUpdateOptions ==
  [both : {<<>>}, friction : FrictionOptions]
    \cup [both : {<<FALSE>>}, friction : {<<>>}]
    \cup [both : {<<TRUE>>}, friction : {<<>>, <<50>>}]

NoPoint == Point(0, 0)

NoOptions == [both |-> <<>>, friction |-> <<>>]

NoConfig == [radius |-> <<>>, enabled |-> <<>>, initialPoint |-> <<>>]

\* The record of a call: the method, its arguments and what it returned.
CallOf(op, config, p, o, r, ret) ==
  [op |-> op, config |-> config, newPointerPoint |-> p, options |-> o,
   radius |-> r, ret |-> ret]

\* No call is in progress: the caller has read back the last result.
Idle == CallOf("idle", NoConfig, NoPoint, NoOptions, 0, FALSE)

-----------------------------------------------------------------------------
\* Behaviour

Install(s) ==
  /\ pointer' = s.pointer
  /\ brush' = s.brush
  /\ radius' = s.radius
  /\ isEnabled' = s.isEnabled
  /\ hasMoved' = s.hasMoved
  /\ angle' = s.angle
  /\ distance' = s.distance

\* new LazyBrush(options), for options drawn from configs.
Construct(configs) ==
  \E options \in configs :
    LET s == constructor(options)
    IN /\ pointer = s.pointer
       /\ brush = s.brush
       /\ velocity = s.pointer
       /\ radius = s.radius
       /\ isEnabled = s.isEnabled
       /\ hasMoved = s.hasMoved
       /\ angle = s.angle
       /\ distance = s.distance
       /\ call = CallOf("constructor", options, NoPoint, NoOptions, 0, FALSE)
       /\ old = s
       /\ moves = 0

Init == Construct(LazyBrushOptions)

\* The caller takes the result of the last call; the next call may start.
Return ==
  /\ call.op # "idle"
  /\ call' = Idle
  /\ old' = this
  /\ UNCHANGED <<pointer, brush, velocity, radius, isEnabled, hasMoved, angle,
                 distance, moves>>

Enable ==
  /\ call.op = "idle"
  /\ Install([this EXCEPT !.isEnabled = TRUE])
  /\ call' = CallOf("enable", NoConfig, NoPoint, NoOptions, 0, FALSE)
  /\ old' = this
  /\ UNCHANGED <<velocity, moves>>

\* Mutant: disable() also puts the brush on the pointer.
Disable_SnapsBrush ==
  /\ call.op = "idle"
  /\ Install([this EXCEPT !.isEnabled = FALSE, !.brush = pointer])
  /\ call' = CallOf("disable", NoConfig, NoPoint, NoOptions, 0, FALSE)
  /\ old' = this
  /\ UNCHANGED <<velocity, moves>>

Disable ==
  /\ call.op = "idle"
  /\ Install([this EXCEPT !.isEnabled = FALSE])
  /\ call' = CallOf("disable", NoConfig, NoPoint, NoOptions, 0, FALSE)
  /\ old' = this
  /\ UNCHANGED <<velocity, moves>>

SetRadius ==
  \E r \in Radii :
    /\ call.op = "idle"
    /\ Install([this EXCEPT !.radius = r])
    /\ call' = CallOf("setRadius", NoConfig, NoPoint, NoOptions, r, FALSE)
    /\ old' = this
    /\ UNCHANGED <<velocity, moves>>

\* update(newPointerPoint, options); max, when given, bounds the lazy
\* displacements that follow one another.
UpdateStep(newPointerPoint, options, max) ==
  LET r == update(this, newPointerPoint, options)
      lazy == LazyMove(this, newPointerPoint, options)
  IN /\ call.op = "idle"
     /\ Representable(this, newPointerPoint, options)
     /\ (lazy /\ max # <<>>) => moves < max[1]
     /\ Install(r.this)
     /\ call' = CallOf("update", NoConfig, newPointerPoint, options, 0, r.ret)
     /\ old' = this
     /\ moves' = IF lazy THEN moves + 1
                ELSE IF r.this.hasMoved THEN 0 ELSE moves
     /\ UNCHANGED velocity

Update ==
  \E newPointerPoint \in Points, options \in LazyBrushUpdateOptions :
    UpdateStep(newPointerPoint, options, <<MaxMoves>>)

Next == Return \/ Enable \/ Disable \/ SetRadius \/ Update

Spec == Init /\ [][Next]_vars

-----------------------------------------------------------------------------
\* Lazy mode with a fixed radius and updates without friction damping.

\* At most this many lazy displacements follow one another in the runs
\* without friction damping.
MaxChain == 2

\* Samples on and off the axes, some within 0.025 and 0.05 of the radius 30.
LazyPoints ==
  {Point(0, 0), Point(Px(100), 0), Point(Px(30), Px(40)),
   Point(Px(30) + 1, 0), Point(Px(30) + 2, 0), Point(Px(30) + 3, 0)}

UndampedConfigs ==
  [radius : {<<>>, <<Px(50)>>}, enabled : {<<TRUE>>}, initialPoint : {<<>>}]

UndampedOptions ==
  [both : {<<>>}, friction : {<<>>, <<0>>, <<100>>}]
    \cup [both : {<<TRUE>>}, friction : {<<>>}]

InitUndamped == Construct(UndampedConfigs)

UpdateUndamped ==
  \E newPointerPoint \in LazyPoints, options \in UndampedOptions :
    UpdateStep(newPointerPoint, options, <<MaxChain>>)

NextUndamped == Return \/ UpdateUndamped

SpecUndamped == InitUndamped /\ [][NextUndamped]_vars

-----------------------------------------------------------------------------
\* Lazy mode always enabled, the radius changed at will (to 0 or below too),
\* updates with and without friction.

LazyConfigs ==
  [radius : {<<>>, <<-Px(10)>>}, enabled : {<<TRUE>>}, initialPoint : {<<>>}]

LazyOptions ==
  [both : {<<>>}, friction : {<<>>, <<50>>}]
    \cup [both : {<<TRUE>>}, friction : {<<>>}]

InitLazy == Construct(LazyConfigs)

UpdateLazy ==
  \E newPointerPoint \in LazyPoints, options \in LazyOptions :
    UpdateStep(newPointerPoint, options, <<MaxMoves>>)

NextLazy == Return \/ SetRadius \/ UpdateLazy

SpecLazy == InitLazy /\ [][NextLazy]_vars

-----------------------------------------------------------------------------
\* The pointer held at one point: update(p, {friction: f}) repeated with
\* 0 < f < 1, lazy mode enabled and the radius fixed.

SettleConfigs ==
  [radius : {<<>>, <<Px(30) + 4>>}, enabled : {<<TRUE>>},
   initialPoint : {<<>>}]

\* Points on the axes whose excess over the radius halves down to the
\* tolerance on the grid.
SettleReach == {Px(30) + 2, Px(30) + 4, Px(30) + 8}

SettlePoints ==
  {Point(d, 0) : d \in SettleReach} \cup {Point(0, d) : d \in SettleReach}
    \cup {Point(-d, 0) : d \in SettleReach}
    \cup {Point(0, -d) : d \in SettleReach}

SettleOptions == [both : {<<>>}, friction : {<<50>>, <<75>>}]

InitSettle == Construct(SettleConfigs)

\* The first call takes the pointer from the origin to p; every later call
\* repeats p.
Settle ==
  \E newPointerPoint \in SettlePoints, options \in SettleOptions :
    /\ equalsTo(pointer, Point(0, 0)) \/ equalsTo(newPointerPoint, pointer)
    /\ UpdateStep(newPointerPoint, options, <<>>)

NextSettle == Return \/ Settle

\* Every call returns.
SpecSettle == InitSettle /\ [][NextSettle]_vars /\ WF_vars(Return)

-----------------------------------------------------------------------------
\* Vocabulary of the properties: the last call, the state it started from
\* (old) and the state it left (this).

Updated == call.op = "update"

NewPoint == call.newPointerPoint

WithBoth == TruthyBoolean(call.options.both)

\* The squared length of the segment between two points.
SquaredDistance(p, q) == SquaredNorm(getDifferenceTo(p, q))

\* The distance from the sample of the last call to the brush before it.
OldDistance == Isqrt(SquaredDistance(NewPoint, old.brush))

\* The length of the brush's displacement in the last call.
Displacement == Isqrt(SquaredDistance(brush, old.brush))

Cross(v, w) == v.x * w.y - v.y * w.x

Dot(v, w) == v.x * w.x + v.y * w.y

\* The brush went from old.brush straight toward the sample.
TowardSample ==
  /\ Cross(getDifferenceTo(brush, old.brush),
           getDifferenceTo(NewPoint, old.brush)) = 0
  /\ Dot(getDifferenceTo(brush, old.brush),
         getDifferenceTo(NewPoint, old.brush)) > 0

\* The brush went from old.brush in the direction of the angle computed.
AlongAngle ==
  LET moved == getDifferenceTo(brush, old.brush)
  IN brush # old.brush /\ Atan2(moved.y, moved.x) = angle

\* The last call was an update() that took the lazy branch.
LazyUpdated == Updated /\ call.ret /\ ~WithBoth /\ old.isEnabled

\* The fields other than hasMoved kept their values.
SameButHasMoved == [this EXCEPT !.hasMoved = old.hasMoved] = old

-----------------------------------------------------------------------------
\* C1 as stated: whenever an update() call has returned while lazy mode is
\* disabled, the brush position equals the pointer position.
C1_AsStated == (Updated /\ ~isEnabled) => equalsTo(brush, pointer)

\* C1 amended: whenever an update() call has returned true while lazy mode is
\* disabled, the brush position equals the pointer position (a call that
\* returns false leaves the brush where a lazy-mode update put it).
C1_DisabledTracks == (Updated /\ call.ret /\ ~isEnabled) => equalsTo(brush, pointer)

\* A disabled-mode update() carried a brush that trailed the pointer onto the
\* new sample.
C1_Witness ==
  /\ Updated /\ call.ret /\ ~isEnabled /\ ~WithBoth
  /\ ~equalsTo(old.brush, old.pointer)
  /\ brush # old.brush
  /\ equalsTo(brush, pointer)

\* C2 as stated: whenever update() returns false, pointer, brush, radius,
\* enabled, angle, distance and hasMoved all have the values they had before
\* the call.
C2_AsStated == (Updated /\ ~call.ret) => this = old

\* C2 amended: whenever update() returns false, pointer, brush, radius,
\* enabled, angle and distance have the values they had before the call and
\* hasMoved is false (it is reset even when it was true); and an update(p)
\* without both and without friction, made when the pointer already is p (as
\* after a first update(p)), returns false.
C2_FalseKeepsState ==
  /\ (Updated /\ ~call.ret) => (SameButHasMoved /\ ~hasMoved)
  /\ (/\ Updated
      /\ equalsTo(old.pointer, NewPoint)
      /\ call.options = NoOptions) => ~call.ret

\* An update() returned false from a state in which hasMoved was true.
C2_Witness ==
  /\ Updated /\ ~call.ret /\ call.options = NoOptions
  /\ old.hasMoved /\ ~hasMoved
  /\ ~equalsTo(brush, pointer)

\* C3 as stated: whenever update() returns true, at least one of pointer,
\* brush, angle, distance and hasMoved differs from its value before the call.
C3_AsStated ==
  (Updated /\ call.ret) =>
    \/ pointer # old.pointer
    \/ brush # old.brush
    \/ angle # old.angle
    \/ distance # old.distance
    \/ hasMoved # old.hasMoved

\* C3 amended: whenever update() returns true for a point that differs from
\* the pointer position, the pointer differs from its value before the call;
\* update() returns true for a point equal to the pointer position only when
\* both or friction is set, and such a call may change nothing.
C3_TrueMeansNewSample ==
  (Updated /\ call.ret) =>
    IF equalsTo(old.pointer, NewPoint)
      THEN WithBoth \/ TruthyNumber(call.options.friction)
      ELSE pointer # old.pointer

\* An update() returned true and left every field as it was.
C3_Witness == Updated /\ call.ret /\ this = old

\* C4: after every update() call, brushHasMoved() is true if and only if the
\* brush coordinates after the call differ from those before the call.
C4_HasMovedIffBrushChanged == Updated => (hasMoved <=> brush # old.brush)

C6_DisabledTracking ==
  (Updated /\ ~WithBoth /\ ~old.isEnabled /\ ~equalsTo(old.pointer, NewPoint)) =>
    /\ equalsTo(brush, NewPoint)
    /\ distance = 0
    /\ angle = AngleZero

\* A disabled-mode update() cleared a distance and an angle that a lazy-mode
\* update had left non-zero.
C6_Witness ==
  /\ Updated /\ ~WithBoth /\ ~old.isEnabled
  /\ ~equalsTo(old.pointer, NewPoint)
  /\ old.distance # 0 /\ old.angle # AngleZero
  /\ distance = 0 /\ angle = AngleZero
  /\ equalsTo(brush, NewPoint)

\* C7: with lazy mode enabled, an update() without the both option whose new
\* pointer position lies at distance <= radius from the brush leaves the
\* brush coordinates unchanged and brushHasMoved() false.
C7_Containment ==
  (/\ Updated /\ ~WithBoth /\ old.isEnabled
   /\ old.radius >= 0
   /\ SquaredDistance(NewPoint, old.brush) <= old.radius * old.radius) =>
    /\ brush = old.brush
    /\ ~hasMoved

\* A lazy-mode update() moved the pointer inside the radius, off the brush,
\* and the brush stayed.
C7_Witness ==
  /\ Updated /\ call.ret /\ ~WithBoth /\ old.isEnabled
  /\ old.radius > 0
  /\ ~equalsTo(old.pointer, NewPoint)
  /\ SquaredDistance(NewPoint, old.brush) > 0
  /\ SquaredDistance(NewPoint, old.brush) < old.radius * old.radius
  /\ brush = old.brush /\ ~hasMoved

\* The example of claim C8: radius 30, lazy mode, start (0,0).
C8_ExampleStart ==
  Brush(Point(0, 0), Point(0, 0), Px(30), TRUE, FALSE, AngleZero, 0)

\* C8's conclusion: the pointer is at distance radius from the brush, which
\* went straight toward it.
C8_Snapped ==
  /\ radius >= 0
  /\ SquaredDistance(pointer, brush) = radius * radius
  /\ TowardSample

C8_Example ==
  (/\ Updated
   /\ old = C8_ExampleStart
   /\ NewPoint = Point(Px(100), 0)
   /\ call.options = NoOptions) =>
    /\ pointer = Point(Px(100), 0)
    /\ brush = Point(Px(70), 0)
    /\ hasMoved
    /\ call.ret

\* C8 as stated: with lazy mode enabled, radius >= 0 and no friction damping,
\* every update() that moves the brush leaves the pointer at distance radius
\* from the brush, the brush having moved straight toward the pointer.
C8_AsStated ==
  /\ (/\ Updated /\ old.isEnabled /\ old.radius >= 0
      /\ friction(call.options) = <<>>
      /\ brush # old.brush) => C8_Snapped
  /\ C8_Example

\* C8 amended: the same for every update() made without the both option (a
\* forced sync moves the brush onto the pointer, at distance 0).
C8_BoundarySnap ==
  /\ (/\ Updated /\ old.isEnabled /\ old.radius >= 0
      /\ friction(call.options) = <<>>
      /\ ~WithBoth
      /\ (hasMoved \/ brush # old.brush)) => C8_Snapped
  /\ C8_Example

\* The example's update has run: from (0,0) with radius 30 the sample (100,0)
\* brought the brush to (70,0).
C8_Witness ==
  /\ Updated
  /\ old = C8_ExampleStart
  /\ NewPoint = Point(Px(100), 0)
  /\ call.options = NoOptions
  /\ brush = Point(Px(70), 0)

\* The displacement update() gives the brush from the state of the last call,
\* for the same sample, under other options.
DisplacementWith(options) ==
  Isqrt(SquaredDistance(update(old, NewPoint, options).this.brush, old.brush))

Friction(f) == [both |-> <<>>, friction |-> f]

\* C9 as stated: in a lazy-mode update() with friction 0.5, whenever the
\* pointer-to-brush distance exceeds the radius, the brush displacement is
\* strictly less than the one the same call gives with no friction and with
\* friction 1.
C9_AsStated ==
  (/\ LazyUpdated
   /\ call.options.friction = <<50>>
   /\ OldDistance > old.radius) =>
    /\ Displacement < DisplacementWith(Friction(<<>>))
    /\ Displacement < DisplacementWith(Friction(<<FrictionDen>>))

\* C9 amended: whenever the distance exceeds the radius by at least 0.05 (so
\* that the brush is moved), the displacement with friction 0.5 is strictly
\* less than with friction 1, and strictly less than with no friction when
\* the new point differs from the pointer position (an update() with no
\* friction and an unchanged point returns early and moves nothing).
C9_FrictionMonotone ==
  (/\ LazyUpdated
   /\ call.options.friction = <<50>>
   /\ 20 * (OldDistance - old.radius) >= Scale) =>
    /\ Displacement < DisplacementWith(Friction(<<FrictionDen>>))
    /\ ~equalsTo(old.pointer, NewPoint) =>
         Displacement < DisplacementWith(Friction(<<>>))

\* An update() with friction 0.5 moved the brush half of what the same
\* update() without friction moves it.
C9_Witness ==
  /\ LazyUpdated
  /\ call.options.friction = <<50>>
  /\ ~equalsTo(old.pointer, NewPoint)
  /\ Displacement > 0
  /\ 2 * Displacement = DisplacementWith(Friction(<<>>))
  /\ 2 * Displacement = DisplacementWith(Friction(<<FrictionDen>>))

\* The factor, in units of 1/FrictionDen, of claim C10: a supplied value
\* below 1 clamped into [0.01, 1], otherwise 1.
C10_StatedFactor(f) ==
  IF f # <<>> /\ f[1] < FrictionDen THEN Min(Max(f[1], 1), FrictionDen)
  ELSE FrictionDen

\* The same with 0 counted as absent.
C10_Factor(f) == IF f = <<0>> THEN FrictionDen ELSE C10_StatedFactor(f)

\* The last call was a lazy-mode update() that moved the brush.
C10_Moved == LazyUpdated /\ hasMoved

\* C10 as stated: a lazy-mode update() that moves the brush displaces it
\* along the angle computed by (distance - radius) times the friction clamped into
\* [0.01, 1] for every supplied value below 1, 0 and negative values
\* included, and by the whole of (distance - radius) for a value >= 1 or none.
C10_AsStated ==
  C10_Moved =>
    /\ Displacement * FrictionDen =
         (OldDistance - old.radius) * C10_StatedFactor(call.options.friction)
    /\ AlongAngle

\* C10 amended: the same for every supplied value below 1 other than 0; a
\* friction of 0 gives, like an absent one, the whole of (distance - radius).
C10_FrictionNormalized ==
  C10_Moved =>
    /\ Displacement * FrictionDen =
         (OldDistance - old.radius) * C10_Factor(call.options.friction)
    /\ AlongAngle

\* A negative friction was clamped to 0.01: the brush moved by a hundredth of
\* (distance - radius).
C10_Witness ==
  /\ C10_Moved
  /\ call.options.friction = <<-50>>
  /\ Displacement > 0
  /\ Displacement * FrictionDen = OldDistance - old.radius

-----------------------------------------------------------------------------
\* C11: a zero or negative radius is kept as given: after construction with
\* radius r <= 0 and after setRadius(r) with r <= 0, getRadius() returns r.
C11_RadiusAcceptedAsIs ==
  /\ (/\ call.op = "constructor"
      /\ call.config.radius # <<>>
      /\ call.config.radius[1] <= 0) => radius = call.config.radius[1]
  /\ (call.op = "setRadius" /\ call.radius <= 0) => radius = call.radius

\* C12: right after an update() made in lazy mode without the both option,
\* getDistance() is the Euclidean distance between the pointer and the brush
\* as they stand after the call.
C12_DistanceIsCurrent ==
  (Updated /\ ~WithBoth /\ old.isEnabled) =>
    distance * distance = SquaredDistance(pointer, brush)

\* C13: enable(), disable() and setRadius() change the enabled flag,
\* respectively the radius, and nothing else; isEnabled() and getRadius() then
\* give the new value.
C13_SettersFrame ==
  /\ call.op = "enable" =>
       ([this EXCEPT !.isEnabled = old.isEnabled] = old /\ isEnabled)
  /\ call.op = "disable" =>
       ([this EXCEPT !.isEnabled = old.isEnabled] = old /\ ~isEnabled)
  /\ call.op = "setRadius" =>
       ([this EXCEPT !.radius = old.radius] = old /\ radius = call.radius)

\* disable() was called with the brush trailing the pointer after a lazy
\* move, and left brush, distance, angle and hasMoved alone.
C13_Witness ==
  /\ call.op = "disable"
  /\ old.isEnabled /\ ~isEnabled
  /\ ~equalsTo(brush, pointer)
  /\ hasMoved /\ distance # 0

\* C14: right after construction pointer and brush are the initial point (the
\* origin when none is given), angle and distance are 0, hasMoved is false,
\* enabled is true exactly when the configuration sets it to true, and the
\* radius is 30 when none is given.
C14_Constructed ==
  call.op = "constructor" =>
    LET given == call.config.initialPoint
        start == IF given = <<>> THEN Point(0, 0) ELSE given[1]
    IN /\ pointer = start
       /\ brush = start
       /\ angle = AngleZero
       /\ distance = 0
       /\ ~hasMoved
       /\ isEnabled <=> (call.config.enabled = <<TRUE>>)
       /\ call.config.radius = <<>> => radius = Px(30)

\* A controller was constructed with an initial point, enabled: false and no
\* radius.
C14_Witness ==
  /\ call.op = "constructor"
  /\ call.config.initialPoint = <<Point(Px(30), Px(40))>>
  /\ call.config.enabled = <<FALSE>>
  /\ call.config.radius = <<>>
  /\ brush = Point(Px(30), Px(40))
  /\ ~isEnabled

\* C15 as stated: update() returns false if and only if the new point equals
\* the pointer position, both is not set and the options carry no friction
\* value (a friction of 0 being a value).
C15_AsStated ==
  Updated =>
    (~call.ret <=> /\ equalsTo(old.pointer, NewPoint)
                   /\ ~WithBoth
                   /\ call.options.friction = <<>>)

\* C15 amended: update() returns false if and only if the new point equals
\* the pointer position, both is not set and the friction is absent or 0.
C15_ReturnsFalseIff ==
  Updated =>
    (~call.ret <=> /\ equalsTo(old.pointer, NewPoint)
                   /\ ~WithBoth
                   /\ call.options.friction \in {<<>>, <<0>>})

\* An update() with friction 0 and the point of the pointer returned false.
C15_Witness ==
  /\ Updated /\ ~call.ret
  /\ call.options.friction = <<0>>
  /\ equalsTo(old.pointer, NewPoint)

\* C18: after every update(p, options), whatever the options, the mode and
\* the return value, the pointer is at p.
C18_PointerIsSample == Updated => equalsTo(pointer, NewPoint)

\* A lazy-mode update() took the pointer to a new sample and left the brush.
C18_Witness ==
  /\ Updated /\ old.isEnabled /\ ~WithBoth
  /\ ~equalsTo(old.pointer, NewPoint)
  /\ equalsTo(pointer, NewPoint)
  /\ brush = old.brush

-----------------------------------------------------------------------------
\* The distance between the pointer and the brush as they stand.
CurrentDistance == Isqrt(SquaredDistance(pointer, brush))

\* C19 (under SpecUndamped: constructed with lazy mode enabled, the radius
\* fixed and >= 0, updates without friction damping, with or without both):
\* after every update() the distance between pointer and brush is less than
\* radius + 0.05.
C19_LazyRadiusBound ==
  /\ isEnabled /\ radius >= 0
  /\ Updated =>
       /\ IsSquare(SquaredDistance(pointer, brush))
       /\ 20 * (CurrentDistance - radius) < Scale

\* An update() left the pointer beyond the radius, within the tolerance, and
\* an earlier one had snapped the brush to the radius.
C19_Witness ==
  /\ Updated /\ call.ret /\ ~WithBoth
  /\ CurrentDistance > radius
  /\ ~hasMoved
  /\ ~equalsTo(brush, Point(0, 0))

C19_SnapWitness ==
  /\ Updated /\ hasMoved /\ ~WithBoth
  /\ CurrentDistance = radius
  /\ moves = MaxChain

-----------------------------------------------------------------------------
\* The distance from the sample to the brush before the call exceeds the
\* radius by at least 0.05.
ExcessReached == 20 * (OldDistance - old.radius) >= Scale

\* The brush moves exactly when the excess is reached; distance and angle are
\* those from the brush before the call to the sample.
Thresholded ==
  /\ hasMoved <=> ExcessReached
  /\ brush # old.brush <=> ExcessReached
  /\ distance = OldDistance
  /\ angle = getAngleTo(NewPoint, old.brush)

\* C16 as stated: in a lazy-mode update() without the both option, the brush
\* is moved exactly when the pointer-to-brush distance exceeds the radius by
\* at least 0.05, and distance and angle are recomputed either way.
C16_AsStated == (Updated /\ ~WithBoth /\ old.isEnabled) => Thresholded

\* C16, amended: in a lazy-mode update() without the both option that does
\* not return early (it returns true), the brush is moved, and hasMoved set,
\* exactly when the pointer-to-brush distance exceeds the radius by at least
\* 0.05; otherwise the brush is left unchanged and hasMoved stays false;
\* distance and angle are recomputed either way.
C16_RoundedThreshold == LazyUpdated => Thresholded

\* Both sides of the threshold: an update() moved the brush on an excess of
\* exactly 0.05, after one that left it on an excess of 0.025.
C16_Witness ==
  /\ LazyUpdated
  /\ 20 * (OldDistance - old.radius) = Scale
  /\ hasMoved /\ brush # old.brush
  /\ old.distance = old.radius + 1
  /\ ~old.hasMoved

-----------------------------------------------------------------------------
\* C17 as stated: with radius <= 0 and lazy mode enabled, every update()
\* without the both option that leaves the pointer at a distance greater than
\* 0 from the brush it found moves the brush and sets hasMoved.
C17_AsStated ==
  (/\ Updated /\ ~WithBoth /\ old.isEnabled
   /\ old.radius <= 0
   /\ SquaredDistance(NewPoint, old.brush) > 0) =>
    /\ hasMoved
    /\ brush # old.brush

\* C17, amended: with radius <= 0 and lazy mode enabled, every update()
\* without the both option that does not return early and finds the pointer
\* at least radius + 0.05 from the brush (any distance when radius <= -0.05,
\* 0.05 or more when radius is 0) moves the brush and sets hasMoved; with
\* radius 0 a distance below 0.05 leaves the brush where it is.
C17_NonPositiveRadius ==
  (/\ LazyUpdated
   /\ old.radius <= 0
   /\ SquaredDistance(NewPoint, old.brush) > 0) =>
    /\ (hasMoved /\ brush # old.brush) <=> ExcessReached
    /\ 20 * old.radius <= -Scale => ExcessReached

\* With radius 0 an update() moved the brush the whole way to a sample 0.05
\* away from it.
C17_Witness ==
  /\ LazyUpdated
  /\ old.radius = 0
  /\ OldDistance = 2
  /\ call.options.friction = <<>>
  /\ hasMoved /\ equalsTo(brush, pointer)

\* With radius 0 an update() left the brush 0.025 from the sample.
C17_ToleranceWitness ==
  /\ LazyUpdated
  /\ old.radius = 0
  /\ OldDistance = 1
  /\ ~hasMoved /\ brush = old.brush

-----------------------------------------------------------------------------
\* A call that moved the brush brought it strictly nearer to p, not nearer
\* than the radius.
SettleStep ==
  (Updated /\ hasMoved) =>
    /\ IsSquare(SquaredDistance(pointer, brush))
    /\ CurrentDistance < OldDistance
    /\ CurrentDistance >= radius

\* C20 (under SpecSettle: lazy mode enabled, radius >= 0, update(p,
\* {friction: f}) called with one p and 0 < f < 1): every call that moves
\* the brush strictly decreases its distance to p without taking it below
\* the radius, and when the call is repeated without end, from some call on
\* every call leaves the brush unmoved.
C20_FrictionSettles ==
  /\ [](isEnabled /\ radius >= 0 /\ SettleStep)
  /\ []<>Updated => <>[](~hasMoved)

\* The brush has settled beyond the radius, within the tolerance, after
\* more than one call that moved it.
C20_Witness ==
  /\ Updated /\ ~hasMoved
  /\ call.options.friction # <<>>
  /\ moves >= 2
  /\ CurrentDistance > radius
  /\ brush = old.brush

====
